---- MODULE Spec2Model ----
(***************************************************************************)
(* A model of fp/fp.py: class FreeProxy.  One FreeProxy object, the calls  *)
(* made on it (get_proxy_list and get, each with its retry recursion), the *)
(* two API fetchers, the criteria filter and the probing loop.             *)
(*                                                                         *)
(* Python's None is the empty sequence <<>> and a present value x is <<x>>.*)
(* The caller leaves `repeat` at its default, False, in every call.        *)
(***************************************************************************)
EXTENDS Naturals, Integers, Sequences, FiniteSets, TLC

\* Most items a GeoNode response carries.
MaxGeonode == 2
\* Most items a ProxyScrape response carries.
MaxProxyscrape == 1

None == <<>>
Some(x) == <<x>>

(***************************************************************************)
(* The raw items the two APIs can answer with.  A field an item lacks is   *)
(* absent from its domain, as a key is absent from a JSON object.          *)
(***************************************************************************)
GeoItems ==
  { [ip |-> "1.1.1.1", port |-> "80", country |-> "US", anonymityLevel |-> "Elite",
     google |-> TRUE, protocols |-> <<"HTTPS">>],
    [ip |-> "2.2.2.2", port |-> "8080", country |-> "DE", anonymityLevel |-> "transparent",
     protocols |-> <<"http", "socks4">>] }

ScrapeItems ==
  { [ip |-> "3.3.3.3", port |-> "443", ip_data |-> [country |-> "US"],
     anonymity |-> "anonymous", ssl |-> TRUE, protocol |-> "https"],
    [ip |-> "4.4.4.4", port |-> "1080", ip_data |-> [country |-> "DE"],
     anonymity |-> "Elite", protocol |-> "SOCKS4"] }

\* What an outbound request to an API can end in.  "ok" is a 2xx answer whose
\* body is a JSON object; "bad_shape" is a 2xx answer whose body is valid JSON
\* but not an object (a list, say).
ResponseKinds == {"ok", "network_error", "bad_status", "bad_json", "bad_shape"}

\* What one probe request through a proxy can end in.
ProbeOutcomes == {"ok", "network_error", "timeout", "bad_status"}

\* The country_id values an object is constructed with.
CountryIds == {None, Some({}), Some({"US"}), Some({"ZZ"})}

\* The google values an object is constructed with.
GoogleValues == {None, Some(TRUE), Some(FALSE)}

SeqsUpTo(S, n) == UNION {[1..k -> S] : k \in 0..n}

\* str.lower() on the strings the items carry.
lower(s) ==
  CASE s = "Elite" -> "elite"
    [] s = "HTTPS" -> "https"
    [] s = "SOCKS4" -> "socks4"
    [] OTHER -> s

\* dict.get(key, default)
dict_get(item, key, default) == IF key \in DOMAIN item THEN item[key] ELSE default

Range(s) == {s[k] : k \in 1..Len(s)}

\* The proxy dict _get_proxies_from_geonode builds from one item.
GeonodeProxy(item) ==
  LET protos == {lower(p) : p \in Range(dict_get(item, "protocols", <<>>))}
  IN  [ip |-> dict_get(item, "ip", ""),
       port |-> dict_get(item, "port", ""),
       country |-> dict_get(item, "country", ""),
       anonymity |-> lower(dict_get(item, "anonymityLevel", "")),
       google |-> dict_get(item, "google", FALSE),
       https |-> "https" \in protos,
       protocol |-> IF "https" \in protos THEN "https" ELSE "http"]

\* The proxy dict _get_proxies_from_proxyscrape builds from one item.
ProxyscrapeProxy(item) ==
  LET protocol == lower(dict_get(item, "protocol", ""))
  IN  [ip |-> dict_get(item, "ip", ""),
       port |-> dict_get(item, "port", ""),
       country |-> dict_get(dict_get(item, "ip_data", [x \in {} |-> ""]), "country", ""),
       anonymity |-> lower(dict_get(item, "anonymity", "")),
       google |-> dict_get(item, "ssl", FALSE),
       https |-> protocol = "https",
       protocol |-> protocol]

\* Whether the fetcher's try block ends in a requests RequestException, which
\* the fetcher catches: a failed request, raise_for_status() on a non-2xx
\* answer, or response.json() on a body that is no JSON (requests raises its
\* own JSONDecodeError, a RequestException).
RaisesRequestException(kind) == kind \in {"network_error", "bad_status", "bad_json"}

\* Whether data.get(...) is reached on a body that is no JSON object: the
\* AttributeError is raised outside the try block.
RaisesAttributeError(kind) == kind = "bad_shape"

\* The truth value of self.country_id in `if self.country_id:`.
CountryActive(cid) == cid # None /\ cid[1] # {}

\* A _criteria that applies the elite filter whether or not anonym is set.
_criteria_elite_alone(proxy, cid, an, el, goo, sch) ==
  IF CountryActive(cid) /\ proxy.country \notin cid[1] THEN FALSE
  ELSE IF el /\ proxy.anonymity # "elite" THEN FALSE
  ELSE IF an /\ ~el /\ proxy.anonymity \notin {"anonymous", "elite"} THEN FALSE
  ELSE IF goo # None /\ proxy.google # goo[1] THEN FALSE
  ELSE IF sch = "https" /\ ~proxy.https THEN FALSE
  ELSE TRUE

\* FreeProxy._criteria, read as the code reads it: one early return per filter.
_criteria(proxy, cid, an, el, goo, sch) ==
  IF CountryActive(cid) /\ proxy.country \notin cid[1] THEN FALSE
  ELSE IF an /\ el /\ proxy.anonymity # "elite" THEN FALSE
  ELSE IF an /\ ~el /\ proxy.anonymity \notin {"anonymous", "elite"} THEN FALSE
  ELSE IF goo # None /\ proxy.google # goo[1] THEN FALSE
  ELSE IF sch = "https" /\ ~proxy.https THEN FALSE
  ELSE TRUE

\* f"{proxy['protocol']}://{proxy['ip']}:{proxy['port']}"
proxy_address(proxy) == <<proxy.protocol, "://", proxy.ip, ":", proxy.port>>

\* A check that takes a timeout for an answer.
check_timeout_as_success(address, outcome) ==
  IF outcome \in {"ok", "timeout"} THEN Some(address) ELSE None

\* A check that assumes every proxy works.
check_always_working(address, outcome) == Some(address)

\* A check that leaves out raise_for_status().
check_without_status(address, outcome) ==
  IF outcome \in {"ok", "bad_status"} THEN Some(address) ELSE None

\* FreeProxy.__check_if_proxy_is_working: the address on a 2xx answer, None on
\* any RequestException.
check_if_proxy_is_working(address, outcome) ==
  IF outcome = "ok" THEN Some(address) ELSE None

\* The orders random.shuffle can leave a list in.
Shuffles(s) ==
  {[k \in 1..Len(s) |-> s[p[k]]] : p \in Permutations(1..Len(s))}

VARIABLES
  country_id, anonym, elite, google, schema, random,  \* the object's fields
  country0,          \* the country_id the object was constructed with
  op,                \* the public call in progress: "none", "list" or "get"
  pc,                \* where the call stands
  get_repeat,        \* `repeat` of the running get frame
  list_repeat,       \* `repeat` of the running get_proxy_list frame
  response,          \* how the last API request ended
  fetched,           \* the lists the fetchers of this pass have returned
  proxy_list,        \* get_proxy_list's proxy_list
  filtered_proxies,  \* get_proxy_list's filtered_proxies
  candidates,        \* get's proxy_list
  i,                 \* index of the next candidate to probe
  probed,            \* the probes of this pass in the order issued: the index
                     \* probed and whether the request came back 2xx
  result,            \* what the call returned
  error,             \* the exception the call ended in
  passes,            \* fetch+filter passes started in this call
  probe_passes,      \* probing loops started in this call
  exhausted,         \* probing loops of this call that ran out of candidates
  mock,              \* the answers the two APIs are fixed to, None when they
                     \* are free to answer anything
  first              \* how the first of two calls ended, None until the second
                     \* begins

config == <<country_id, anonym, elite, google, schema, random>>
control == <<op, pc, get_repeat, list_repeat>>
locals == <<response, fetched, proxy_list, filtered_proxies, candidates, i, probed>>
history == <<passes, probe_passes, exhausted>>
harness == <<mock, first>>
vars == <<config, country0, control, locals, result, error, history, harness>>


\* The exceptions a call can end in, by the message the code raises them with.
NoProxiesAvailable == "NoProxiesAvailable"   \* 'Failed to retrieve any proxies from all sources.'
NoMatchingProxies == "NoMatchingProxies"     \* 'No proxies found matching the specified criteria.'
NoCandidates == "NoCandidates"               \* 'No proxies available.'
NoWorkingProxies == "NoWorkingProxies"       \* 'There are no working proxies at this time.'
AttributeError == "AttributeError"           \* raised by data.get on a body that is no object

\* FreeProxy.__init__: every combination of arguments.
Init ==
  /\ country_id \in CountryIds
  /\ anonym \in BOOLEAN
  /\ elite \in BOOLEAN
  /\ google \in GoogleValues
  /\ schema \in {"http", "https"}
  /\ random \in BOOLEAN
  /\ country0 = country_id
  /\ op = "none"
  /\ pc = "idle"
  /\ get_repeat = FALSE
  /\ list_repeat = FALSE
  /\ response = "none"
  /\ fetched = <<>>
  /\ proxy_list = <<>>
  /\ filtered_proxies = <<>>
  /\ candidates = <<>>
  /\ i = 1
  /\ probed = <<>>
  /\ result = None
  /\ error = "none"
  /\ passes = 0
  /\ probe_passes = 0
  /\ exhausted = 0
  /\ mock = None
  /\ first = None

\* An extend that drops a record it has already seen.
RECURSIVE Dedup(_)
Dedup(s) ==
  IF s = <<>> THEN <<>>
  ELSE LET d == Dedup(SubSeq(s, 1, Len(s) - 1))
       IN  IF \E k \in 1..Len(d) : d[k] = s[Len(s)] THEN d ELSE Append(d, s[Len(s)])
extend_dedup(list, more) == Dedup(list \o more)

\* list.extend
extend(list, more) == list \o more

\* What _get_proxies_from_geonode returns when it returns.
_get_proxies_from_geonode(kind, items) ==
  IF RaisesRequestException(kind) THEN <<>>
  ELSE [k \in 1..Len(items) |-> GeonodeProxy(items[k])]

\* What _get_proxies_from_proxyscrape returns when it returns.
_get_proxies_from_proxyscrape(kind, items) ==
  IF RaisesRequestException(kind) THEN <<>>
  ELSE [k \in 1..Len(items) |-> ProxyscrapeProxy(items[k])]

\* A retry that returns the aggregate without filtering it.
FilteredRetryUnfiltered(list) ==
  IF list_repeat THEN list
  ELSE SelectSeq(list, LAMBDA proxy :
           _criteria(proxy, country_id, anonym, elite, google, schema))

\* A filter that keeps at most the first match.
FilteredFirstOnly(list) ==
  LET all == SelectSeq(list, LAMBDA proxy :
                 _criteria(proxy, country_id, anonym, elite, google, schema))
  IN  IF all = <<>> THEN <<>> ELSE <<all[1]>>

\* [proxy for proxy in proxy_list if self._criteria(proxy)]
Filtered(list) ==
  SelectSeq(list, LAMBDA proxy : _criteria(proxy, country_id, anonym, elite, google, schema))

\* An emptiness check that never fires.
NoneRetrievedNever(list) == FALSE

\* `if not proxy_list:` in get_proxy_list
NoneRetrieved(list) == list = <<>>

\* A get_proxy_list that retries only when a country filter is set.
ListRetriesIfCountry(repeat) == ~repeat /\ CountryActive(country_id)

\* A get_proxy_list that never retries.
ListRetriesNever(repeat) == FALSE

\* `if not repeat:` in get_proxy_list
ListRetries(repeat) == ~repeat

\* A get that retries only when a country filter is set.
GetRetriesIfCountry(repeat) == ~repeat /\ CountryActive(country_id)

\* A get that gives up after its first probing loop.
GetRetriesNever(repeat) == FALSE

\* A get that recurses whatever `repeat` says.
GetRetriesAlways(repeat) == TRUE

\* `if not repeat:` in get
GetRetries(repeat) == ~repeat

\* The entry of a get_proxy_list frame.
EnterList(repeat) ==
  /\ pc' = "geonode"
  /\ list_repeat' = repeat
  /\ response' = "none"
  /\ fetched' = <<>>
  /\ proxy_list' = <<>>
  /\ filtered_proxies' = <<>>

\* The call raises `kind` to its caller.
Raise(kind) ==
  /\ error' = kind
  /\ pc' = "done"
  /\ result' = None

\* A public call begins: the frame and the per-call history start afresh.
Begin(name) ==
  /\ pc \in {"idle", "done"}
  /\ op' = name
  /\ get_repeat' = FALSE
  /\ EnterList(FALSE)
  /\ candidates' = <<>>
  /\ i' = 1
  /\ probed' = <<>>
  /\ result' = None
  /\ error' = "none"
  /\ passes' = 1
  /\ probe_passes' = 0
  /\ exhausted' = 0
  /\ UNCHANGED <<config, country0>>

\* The caller calls get_proxy_list().
CallGetProxyList == Begin("list") /\ UNCHANGED harness

\* The caller calls get().
CallGet == Begin("get") /\ UNCHANGED harness

\* The answers GeoNode can give: how the request ended and, on a 2xx answer
\* with a JSON object, the items of data['data'].
GeoAnswers ==
  {a \in ResponseKinds \X SeqsUpTo(GeoItems, MaxGeonode) : a[1] # "ok" => a[2] = <<>>}

\* The answers ProxyScrape can give.
ScrapeAnswers ==
  {a \in ResponseKinds \X SeqsUpTo(ScrapeItems, MaxProxyscrape) : a[1] # "ok" => a[2] = <<>>}

\* get_proxy_list, line 35, on the answer <<kind, items>>.
FetchGeonodeOn(kind, items) ==
  /\ pc = "geonode"
  /\ response' = kind
  /\ IF RaisesAttributeError(kind)
     THEN /\ Raise(AttributeError)
          /\ UNCHANGED <<fetched, proxy_list>>
     ELSE /\ fetched' = Append(fetched, _get_proxies_from_geonode(kind, items))
          /\ proxy_list' = extend(proxy_list, _get_proxies_from_geonode(kind, items))
          /\ pc' = "proxyscrape"
          /\ UNCHANGED <<result, error>>
  /\ UNCHANGED <<config, country0, op, get_repeat, list_repeat,
                 filtered_proxies, candidates, i, probed, history, harness>>

\* get_proxy_list, line 37, on the answer <<kind, items>>.
FetchProxyscrapeOn(kind, items) ==
  /\ pc = "proxyscrape"
  /\ response' = kind
  /\ IF RaisesAttributeError(kind)
     THEN /\ Raise(AttributeError)
          /\ UNCHANGED <<fetched, proxy_list>>
     ELSE /\ fetched' = Append(fetched, _get_proxies_from_proxyscrape(kind, items))
          /\ proxy_list' = extend(proxy_list, _get_proxies_from_proxyscrape(kind, items))
          /\ pc' = "filter"
          /\ UNCHANGED <<result, error>>
  /\ UNCHANGED <<config, country0, op, get_repeat, list_repeat,
                 filtered_proxies, candidates, i, probed, history, harness>>

\* get_proxy_list, line 35: the GeoNode request and its parsing.
FetchGeonode == \E a \in GeoAnswers : FetchGeonodeOn(a[1], a[2])

\* get_proxy_list, line 37: the ProxyScrape request and its parsing.
FetchProxyscrape == \E a \in ScrapeAnswers : FetchProxyscrapeOn(a[1], a[2])

\* get_proxy_list returns `out`: to the caller, or to get (line 198), which
\* checks it for emptiness (line 199) and starts the probing loop.  On the
\* return to get the locals of the get_proxy_list frame are gone.
ReturnList(out) ==
  /\ IF op = "list"
     THEN /\ result' = Some(out)
          /\ pc' = "done"
          /\ filtered_proxies' = out
          /\ UNCHANGED <<error, candidates, i, probed, probe_passes,
                         response, fetched, proxy_list>>
     ELSE IF out = <<>>
     THEN /\ Raise(NoCandidates)
          /\ filtered_proxies' = out
          /\ UNCHANGED <<candidates, i, probed, probe_passes,
                         response, fetched, proxy_list>>
     ELSE /\ candidates' = out
          /\ i' = 1
          /\ probed' = <<>>
          /\ pc' = "probe"
          /\ probe_passes' = probe_passes + 1
          /\ response' = "none"
          /\ fetched' = <<>>
          /\ proxy_list' = <<>>
          /\ filtered_proxies' = <<>>
          /\ UNCHANGED <<result, error>>
  /\ UNCHANGED <<country_id, list_repeat, passes>>

\* get_proxy_list, lines 39-57: the emptiness check, the filter, the retry
\* without the country filter, the shuffle and the return.
FilterStep ==
  /\ pc = "filter"
  /\ IF NoneRetrieved(proxy_list)
     THEN /\ Raise(NoProxiesAvailable)
          /\ UNCHANGED <<country_id, list_repeat, locals, passes, probe_passes>>
     ELSE IF Filtered(proxy_list) = <<>>
     THEN IF ListRetries(list_repeat)
          THEN /\ country_id' = None
               /\ EnterList(TRUE)
               /\ passes' = passes + 1
               /\ UNCHANGED <<candidates, i, probed, result, error, probe_passes>>
          ELSE /\ Raise(NoMatchingProxies)
               /\ UNCHANGED <<country_id, list_repeat, locals, passes, probe_passes>>
     ELSE \E out \in (IF random THEN Shuffles(Filtered(proxy_list))
                                 ELSE {Filtered(proxy_list)}) :
            ReturnList(out)
  /\ UNCHANGED <<anonym, elite, google, schema, random, country0,
                 op, get_repeat, exhausted, harness>>

\* get, lines 202-210: one iteration of the probing loop.
ProbeStep ==
  /\ pc = "probe"
  /\ i <= Len(candidates)
  /\ \E outcome \in ProbeOutcomes :
       LET working_proxy ==
             check_if_proxy_is_working(proxy_address(candidates[i]), outcome)
       IN  /\ probed' = Append(probed, [index |-> i, ok |-> outcome = "ok"])
           /\ IF working_proxy # None
              THEN /\ result' = working_proxy
                   /\ pc' = "done"
                   /\ UNCHANGED i
              ELSE /\ i' = i + 1
                   /\ UNCHANGED <<result, pc>>
  /\ UNCHANGED <<config, country0, op, get_repeat, list_repeat, response,
                 fetched, proxy_list, filtered_proxies, candidates, error, history,
                 harness>>

\* get, lines 212-217: the loop ran out of candidates.
ExhaustedStep ==
  /\ pc = "probe"
  /\ i > Len(candidates)
  /\ exhausted' = exhausted + 1
  /\ IF GetRetries(get_repeat)
     THEN /\ country_id' = None
          /\ get_repeat' = TRUE
          /\ EnterList(TRUE)
          /\ passes' = passes + 1
          /\ UNCHANGED <<result, error>>
     ELSE /\ Raise(NoWorkingProxies)
          /\ UNCHANGED <<country_id, get_repeat, list_repeat, response, fetched,
                         proxy_list, filtered_proxies, passes>>
  /\ UNCHANGED <<anonym, elite, google, schema, random, country0, op,
                 candidates, i, probed, probe_passes, harness>>

\* The proxy dicts the filter can be handed: every value of the fields it
\* reads, unknown and empty strings included.
ProxyRecords ==
  [ip : {"1.1.1.1"}, port : {"80"}, country : {"US", "DE", ""},
   anonymity : {"elite", "anonymous", "transparent", ""},
   google : BOOLEAN, https : BOOLEAN, protocol : {"http"}]

\* An object of any configuration about to filter one proxy dict.
InitCriteria ==
  /\ country_id \in CountryIds
  /\ anonym \in BOOLEAN
  /\ elite \in BOOLEAN
  /\ google \in GoogleValues
  /\ schema \in {"http", "https"}
  /\ random \in BOOLEAN
  /\ country0 = country_id
  /\ op = "none"
  /\ pc = "criteria"
  /\ get_repeat = FALSE
  /\ list_repeat = FALSE
  /\ response = "none"
  /\ fetched = <<>>
  /\ proxy_list \in {<<r>> : r \in ProxyRecords}
  /\ filtered_proxies = <<>>
  /\ candidates = <<>>
  /\ i = 1
  /\ probed = <<>>
  /\ result = None
  /\ error = "none"
  /\ passes = 0
  /\ probe_passes = 0
  /\ exhausted = 0
  /\ mock = None
  /\ first = None

\* get_proxy_list, line 43, on its own: the filter applied to the list.
CriteriaStep ==
  /\ pc = "criteria"
  /\ filtered_proxies' = Filtered(proxy_list)
  /\ pc' = "criteria_done"
  /\ UNCHANGED <<config, country0, op, get_repeat, list_repeat, response, fetched,
                 proxy_list, candidates, i, probed, result, error, history, harness>>

SpecCriteria == InitCriteria /\ [][CriteriaStep]_vars

\* An object of any configuration, and two APIs whose answers are fixed.
InitTwice ==
  /\ country_id \in CountryIds
  /\ anonym \in BOOLEAN
  /\ elite \in BOOLEAN
  /\ google \in GoogleValues
  /\ schema \in {"http", "https"}
  /\ random \in BOOLEAN
  /\ country0 = country_id
  /\ op = "none"
  /\ pc = "idle"
  /\ get_repeat = FALSE
  /\ list_repeat = FALSE
  /\ response = "none"
  /\ fetched = <<>>
  /\ proxy_list = <<>>
  /\ filtered_proxies = <<>>
  /\ candidates = <<>>
  /\ i = 1
  /\ probed = <<>>
  /\ result = None
  /\ error = "none"
  /\ passes = 0
  /\ probe_passes = 0
  /\ exhausted = 0
  /\ mock \in {Some([geonode |-> g, proxyscrape |-> p]) : g \in GeoAnswers, p \in ScrapeAnswers}
  /\ first = None

\* The caller calls get_proxy_list(), a first and then a second time; how the
\* first call ended is kept when the second begins.
CallGetProxyListTwice ==
  /\ first = None
  /\ Begin("list")
  /\ first' = IF pc = "done" THEN Some(<<result, error>>) ELSE None
  /\ UNCHANGED mock

\* get_proxy_list, line 35, against the fixed GeoNode answer.
FetchGeonodeMocked == FetchGeonodeOn(mock[1].geonode[1], mock[1].geonode[2])

\* get_proxy_list, line 37, against the fixed ProxyScrape answer.
FetchProxyscrapeMocked == FetchProxyscrapeOn(mock[1].proxyscrape[1], mock[1].proxyscrape[2])

NextTwice ==
  \/ CallGetProxyListTwice
  \/ FetchGeonodeMocked
  \/ FetchProxyscrapeMocked
  \/ FilterStep

SpecTwice == InitTwice /\ [][NextTwice]_vars

Next ==
  \/ CallGetProxyList
  \/ CallGet
  \/ FetchGeonode
  \/ FetchProxyscrape
  \/ FilterStep
  \/ ProbeStep
  \/ ExhaustedStep

Spec == Init /\ [][Next]_vars


(***************************************************************************)
(* The claims.                                                             *)
(***************************************************************************)
B(flag) == IF flag THEN 1 ELSE 0

\* C1 as stated: within one get or get_proxy_list call the fetch+filter pass
\* is re-run at most once, so a call never starts more than two passes.
C1_AtMostOneRerun == passes <= 2

\* C1, amended: each level retries at most once.  A get_proxy_list frame
\* re-runs its pass only while its repeat flag is unset, a get frame re-runs
\* only while its own flag is unset, so a get_proxy_list call starts at most
\* two fetch+filter passes, a get call at most three (the list-level widening
\* of its first attempt and the validator-level retry) and at most two probing
\* loops; NoMatchingProxies and NoWorkingProxies come only from a frame that
\* is already a retry.
C1_EachLevelRetriesOnce ==
  /\ passes <= 1 + B(list_repeat) + B(get_repeat)
  /\ probe_passes <= 1 + B(get_repeat)
  /\ op = "list" => (~get_repeat /\ passes <= 2 /\ probe_passes = 0)
  /\ op = "get" => (passes <= 3 /\ probe_passes <= 2)
  /\ error = NoMatchingProxies => list_repeat
  /\ error = NoWorkingProxies => (get_repeat /\ exhausted = 2)

\* A get on an object built with country_id = ['ZZ'] that widened in its
\* list, ran out of candidates, fetched a third time and ran out again.
C1_Witness ==
  /\ op = "get"
  /\ country0 = Some({"ZZ"})
  /\ passes = 3
  /\ probe_passes = 2
  /\ error = NoWorkingProxies

\* The country set a country_id value stands for: None restricts nothing.
CountrySet(cid) == IF cid = None THEN {} ELSE cid[1]

\* C2 as stated: after any call, whether it returned or failed with one of
\* the errors of the design, the object holds the country set it was
\* constructed with.
C2_CountryIdKept ==
  (pc = "done" /\ error \in {"none", NoProxiesAvailable, NoMatchingProxies, NoWorkingProxies})
    => CountrySet(country_id) = CountrySet(country0)


\* The four sub-predicates of the criteria filter, as the design states them.
CountryOk(r, cid) == (cid # None /\ cid[1] # {}) => r.country \in cid[1]
AnonymityOk(r, an, el) ==
  /\ (an /\ el) => r.anonymity = "elite"
  /\ (an /\ ~el) => r.anonymity \in {"anonymous", "elite"}
GoogleOk(r, goo) == goo # None => r.google = goo[1]
SchemeOk(r, sch) == sch = "https" => r.https
Matches(r, cid, an, el, goo, sch) ==
  CountryOk(r, cid) /\ AnonymityOk(r, an, el) /\ GoogleOk(r, goo) /\ SchemeOk(r, sch)

\* Whether the record satisfies the configuration the object holds now.
MatchesNow(r) == Matches(r, country_id, anonym, elite, google, schema)

\* The subsequence of `list` that satisfies the configuration, in order.
RECURSIVE Matching(_)
Matching(list) ==
  IF list = <<>> THEN <<>>
  ELSE IF MatchesNow(Head(list)) THEN <<Head(list)>> \o Matching(Tail(list))
  ELSE Matching(Tail(list))

NoneOk(log) == \A k \in 1..Len(log) : ~log[k].ok

\* C3: get probes the candidates of a pass in list order, each once; it
\* returns the address of the first candidate whose probe came back 2xx, and
\* once a probe has succeeded the call is over: no later candidate is probed
\* and no earlier one is probed again.
C3_FirstMatch ==
  /\ \A k \in 1..Len(probed) : probed[k].index = k
  /\ Len(probed) <= Len(candidates)
  /\ \A k \in 1..(Len(probed) - 1) : ~probed[k].ok
  /\ pc = "probe" => (NoneOk(probed) /\ i = Len(probed) + 1)
  /\ ~NoneOk(probed) =>
       /\ pc = "done"
       /\ error = "none"
       /\ result = Some(proxy_address(candidates[Len(probed)]))
  /\ (op = "get" /\ pc = "done" /\ error = "none") => ~NoneOk(probed)

\* Three candidates, the first failed, the second succeeded, the third was
\* never probed.
C3_Witness ==
  /\ op = "get"
  /\ pc = "done"
  /\ Len(candidates) = 3
  /\ Len(probed) = 2
  /\ ~probed[1].ok
  /\ probed[2].ok
  /\ result = Some(proxy_address(candidates[2]))

\* NoWorkingProxies is the end of a get whose two probing loops ran out.
C4_NoWorkingInv ==
  /\ error = NoWorkingProxies =>
       /\ op = "get" /\ pc = "done" /\ get_repeat
       /\ probe_passes = 2 /\ exhausted = 2
       /\ candidates # <<>>
       /\ Len(probed) = Len(candidates)
       /\ NoneOk(probed)
  /\ (op = "get" /\ pc = "done" /\ exhausted = 2) => error = NoWorkingProxies
  /\ exhausted <= probe_passes

\* A probing loop counts as run out only when every candidate of it has been
\* probed and none succeeded.
C4_LoopRanOut ==
  exhausted' = exhausted + 1 =>
    (pc = "probe" /\ Len(probed) = Len(candidates) /\ NoneOk(probed))

\* C4: get ends in NoWorkingProxies exactly when the probing loop of the
\* first attempt and the probing loop of the retry both ran out of
\* candidates: every candidate of either loop was probed and failed, and the
\* error is never raised while a candidate of the current loop is unprobed.
C4_NoWorkingExactly == []C4_NoWorkingInv /\ [][C4_LoopRanOut]_vars

\* Both probing loops ran out and the call ended in NoWorkingProxies.
C4_Witness ==
  /\ error = NoWorkingProxies
  /\ Len(candidates) = 2
  /\ Len(probed) = 2
  /\ exhausted = 2

\* The filter step of a get_proxy_list pass whose aggregate holds a match.
C5_Step ==
  (op = "list" /\ pc = "filter" /\ \E k \in 1..Len(proxy_list) : MatchesNow(proxy_list[k]))
    => /\ pc' = "done"
       /\ error' = "none"
       /\ passes' = passes
       /\ country_id' = country_id
       /\ result' # None
       /\ ~random => result' = Some(Matching(proxy_list))

\* C5: when at least one record of the aggregate satisfies every criterion
\* the object holds (country included), get_proxy_list does not widen: it
\* returns in that pass, and with random unset it returns exactly the records
\* of the aggregate that satisfy the criteria, in aggregation order.
C5_ExactSubsequence == [][C5_Step]_vars

\* A first pass under country_id = ['US'] that kept some records of the
\* aggregate and dropped others.
C5_Witness ==
  /\ op = "list" /\ pc = "done" /\ ~random /\ passes = 1
  /\ country_id = Some({"US"})
  /\ result # None
  /\ Len(result[1]) = 2
  /\ Len(proxy_list) = 3

\* Whether the country set is the only restriction the object holds.
OnlyCountry == ~anonym /\ google = None /\ schema = "http"

\* The filter step of a first pass none of whose records is in the country set.
C6_FirstPassStep ==
  (/\ op = "list" /\ pc = "filter" /\ ~list_repeat /\ OnlyCountry
   /\ country_id # None /\ country_id[1] # {}
   /\ proxy_list # <<>>
   /\ \A k \in 1..Len(proxy_list) : proxy_list[k].country \notin country_id[1])
    => /\ pc' = "geonode"
       /\ list_repeat'
       /\ country_id' = None
       /\ passes' = passes + 1
       /\ error' = "none"

\* The retry pass, and where NoMatchingProxies comes from.
C6_RetryInv ==
  /\ (op = "list" /\ list_repeat /\ OnlyCountry) =>
       /\ passes = 2
       /\ country_id = None
       /\ error # NoMatchingProxies
       /\ (pc = "done" /\ Len(fetched) = 2 /\ proxy_list # <<>>) =>
            /\ error = "none"
            /\ result # None
            /\ result[1] # <<>>
            /\ ~random => result[1] = proxy_list
  /\ error = NoMatchingProxies =>
       /\ list_repeat
       /\ proxy_list # <<>>
       /\ \A k \in 1..Len(proxy_list) : ~MatchesNow(proxy_list[k])

\* C6: with the country set as the only restriction, a non-empty aggregate
\* and no record in the country set, the first pass of get_proxy_list filters
\* to nothing and starts exactly one retry with country_id cleared; the retry
\* returns every record of its aggregate when that is non-empty; and
\* NoMatchingProxies is raised only by a retry whose filter kept nothing.
C6_WidenRetry == []C6_RetryInv /\ [][C6_FirstPassStep]_vars

\* A get_proxy_list under country_id = ['ZZ'] alone that widened and returned
\* the whole aggregate of its second pass.
C6_Witness ==
  /\ op = "list" /\ pc = "done" /\ list_repeat /\ OnlyCountry
  /\ country0 = Some({"ZZ"})
  /\ passes = 2
  /\ result # None
  /\ Len(result[1]) = 3

\* C7: once both fetchers have returned, k1 and k2 records, the aggregate is
\* the first list followed by the second, k1 + k2 records with duplicates
\* kept; the call ends in NoProxiesAvailable if and only if k1 = k2 = 0.
C7_Aggregate ==
  /\ Len(fetched) = 1 => proxy_list = fetched[1]
  /\ Len(fetched) = 2 =>
       /\ Len(proxy_list) = Len(fetched[1]) + Len(fetched[2])
       /\ \A k \in 1..Len(fetched[1]) : proxy_list[k] = fetched[1][k]
       /\ \A k \in 1..Len(fetched[2]) : proxy_list[Len(fetched[1]) + k] = fetched[2][k]
  /\ error = NoProxiesAvailable <=>
       (pc = "done" /\ Len(fetched) = 2 /\ Len(fetched[1]) + Len(fetched[2]) = 0)

\* GeoNode returned the same record twice, ProxyScrape one more.
C7_Witness ==
  /\ pc = "filter"
  /\ Len(fetched) = 2
  /\ Len(fetched[1]) = 2
  /\ fetched[1][1] = fetched[1][2]
  /\ Len(fetched[2]) = 1
  /\ Len(proxy_list) = 3


\* C8: the filter keeps a record if and only if all four sub-predicates hold
\* of it: country membership when the country set is non-empty; anonymity
\* elite under anonym and elite, anonymous or elite under anonym alone;
\* google equal to the required value when one is required; https when the
\* scheme is https.  A sub-predicate that is not active rejects nothing.
C8_ConjunctionLaw ==
  pc = "criteria_done" =>
    LET r == proxy_list[1]
    IN  /\ filtered_proxies \in {<<>>, <<r>>}
        /\ filtered_proxies = <<r>> <=>
             /\ CountryOk(r, country_id)
             /\ AnonymityOk(r, anonym, elite)
             /\ GoogleOk(r, google)
             /\ SchemeOk(r, schema)
        /\ (~CountryActive(country_id) /\ ~anonym /\ google = None /\ schema = "http")
             => filtered_proxies = <<r>>

\* elite without anonym is not active: a transparent proxy was kept.
C8_Witness ==
  /\ pc = "criteria_done"
  /\ elite /\ ~anonym
  /\ country_id = Some({"US"})
  /\ proxy_list[1].anonymity = "transparent"
  /\ filtered_proxies = proxy_list

\* The ways a fetch can fail: no answer, a non-2xx answer, a body that is no
\* JSON, a body that is JSON of the wrong shape.
FetchFailures == {"network_error", "bad_status", "bad_json", "bad_shape"}

\* C9 as stated: a fetcher whose request ended in a network failure, a
\* non-2xx status or a malformed body raises nothing and contributes an empty
\* list, and the aggregate is what the other fetcher returned.
C9_FailureIsolated ==
  response \in FetchFailures =>
    /\ error # AttributeError
    /\ fetched # <<>>
    /\ fetched[Len(fetched)] = <<>>
    /\ Len(fetched) = 2 => proxy_list = fetched[1]

\* The step taken on an aggregate of two empty lists.
C10_EmptyStep ==
  (pc = "filter" /\ fetched = <<<<>>, <<>>>>)
    => /\ pc' = "done"
       /\ error' = NoProxiesAvailable
       /\ result' = None
       /\ passes' = passes
       /\ probe_passes' = probe_passes
       /\ probed' = probed
       /\ country_id' = country_id
       /\ <<list_repeat', get_repeat'>> = <<list_repeat, get_repeat>>

\* The step taken after NoProxiesAvailable: a new call.
C10_AfterStep ==
  error = NoProxiesAvailable => (pc = "done" /\ pc' = "geonode" /\ passes' = 1)

\* C10: when both fetchers of an aggregator invocation returned nothing, the
\* call ends there in NoProxiesAvailable: no pass is started, country_id is
\* not cleared, nothing is probed, and the next step is a new call.
C10_NotRetried == [][C10_EmptyStep /\ C10_AfterStep]_vars

\* A get whose first probing loop ran out and whose second fetch brought
\* nothing: it ends in NoProxiesAvailable after two passes.
C10_Witness ==
  /\ op = "get" /\ pc = "done"
  /\ error = NoProxiesAvailable
  /\ passes = 2
  /\ exhausted = 1


\* C11: two get_proxy_list calls on one object against APIs whose answers are
\* fixed, with random unset, end the same way: the same list in the same
\* order, or the same error, also when the first call widened.
C11_Idempotent ==
  (pc = "done" /\ first # None /\ ~random) => <<result, error>> = first[1]

\* The first call, under country_id = ['ZZ'] and anonym, widened; the second
\* ran on the cleared country_id and returned the same proper part of the
\* aggregate.
C11_Witness ==
  /\ pc = "done" /\ first # None /\ ~random
  /\ country0 = Some({"ZZ"}) /\ country_id = None
  /\ anonym
  /\ ~list_repeat
  /\ result # None
  /\ Len(result[1]) = 2
  /\ Len(proxy_list) = 3
  /\ first[1] = <<result, error>>


\* C12 as stated: on an object with no country restriction, a get whose
\* first probing loop ran out ends there, with no second fetch and no second
\* round of probes.
C12_NoCountryNoRetry ==
  (op = "get" /\ ~CountryActive(country0)) =>
    (~get_repeat /\ probe_passes <= 1)

\* C12, amended: a get whose first probing loop ran out starts a second pass
\* whenever this is its first attempt, whether or not a country set is
\* configured; the retry runs with country_id cleared, and a second loop
\* that runs out ends the call in NoWorkingProxies.
C12_RetriesWhateverCountry ==
  /\ (op = "get" /\ exhausted >= 1) => (get_repeat /\ list_repeat /\ passes >= 2)
  /\ get_repeat => (op = "get" /\ exhausted >= 1 /\ country_id = None)
  /\ exhausted = 2 => (pc = "done" /\ error = NoWorkingProxies)
  /\ exhausted <= 2

\* An object built with country_id = None whose get ran a second round of
\* probes.
C12_Witness ==
  /\ op = "get"
  /\ country0 = None
  /\ get_repeat
  /\ probe_passes = 2
  /\ Len(probed) = 1

\* C13 as stated: on an object with no country filter, a get_proxy_list whose
\* filter kept nothing fails on its first attempt, without a second
\* aggregator invocation.
C13_NoCountryNoRetry ==
  (op = "list" /\ ~CountryActive(country0)) => (~list_repeat /\ passes <= 1)

\* The filter step on a non-empty aggregate none of whose records matches.
C13_EmptyFilterStep ==
  (pc = "filter" /\ proxy_list # <<>>
   /\ \A k \in 1..Len(proxy_list) : ~MatchesNow(proxy_list[k]))
    => IF ~list_repeat
       THEN /\ pc' = "geonode"
            /\ list_repeat'
            /\ country_id' = None
            /\ passes' = passes + 1
            /\ error' = "none"
       ELSE /\ pc' = "done"
            /\ error' = NoMatchingProxies
            /\ passes' = passes

\* C13, amended: get_proxy_list retries whenever the filtered result is empty
\* and this is its first attempt, whether or not a country set is configured;
\* the retry invokes the aggregator again with country_id cleared, and
\* NoMatchingProxies is raised only by a retry whose filter kept nothing.
C13_RetriesWhateverCountry == [][C13_EmptyFilterStep]_vars

\* An object built with country_id = None whose get_proxy_list fetched twice
\* and ended in NoMatchingProxies.
C13_Witness ==
  /\ op = "list"
  /\ country0 = None
  /\ passes = 2
  /\ error = NoMatchingProxies


\* C14 as stated: every proxy dict a fetcher returns has protocol "http" or
\* "https".
C14_ProtocolHttpOrHttps ==
  \A j \in 1..Len(fetched) : \A k \in 1..Len(fetched[j]) :
    fetched[j][k].protocol \in {"http", "https"}

\* C15: a probe that fails, by network error, timeout or non-2xx answer,
\* never ends the call: while no probe of the loop has succeeded and a
\* candidate is still untried, get is in its loop, at the next candidate,
\* with nothing returned and nothing raised.
C15_ProbingNeverAborts ==
  (op = "get" /\ NoneOk(probed) /\ Len(probed) < Len(candidates)) =>
    /\ pc = "probe"
    /\ i = Len(probed) + 1
    /\ error = "none"
    /\ result = None

\* Two probes failed and the loop stands at the third candidate.
C15_Witness ==
  /\ op = "get" /\ pc = "probe"
  /\ Len(candidates) = 3
  /\ Len(probed) = 2
  /\ NoneOk(probed)
  /\ i = 3

\* Whether the record satisfies the three sub-predicates widening leaves alone.
OtherCriteriaOk(r) ==
  AnonymityOk(r, anonym, elite) /\ GoogleOk(r, google) /\ SchemeOk(r, schema)

\* A record outside the constructed country set is held only by an object
\* whose country set has been cleared.
CountryOkOrCleared(r) ==
  CountryOk(r, country0) \/ (country_id = None /\ CountryActive(country0))

\* What get_proxy_list returns and what get probes keeps to the criteria.
C16_ReturnedInv ==
  /\ (op = "list" /\ result # None) =>
       \A k \in 1..Len(result[1]) :
         OtherCriteriaOk(result[1][k]) /\ CountryOkOrCleared(result[1][k])
  /\ \A k \in 1..Len(candidates) :
       OtherCriteriaOk(candidates[k]) /\ CountryOkOrCleared(candidates[k])
  /\ (op = "get" /\ result # None) =>
       \E k \in 1..Len(candidates) : result = Some(proxy_address(candidates[k]))

\* The country set is cleared only by a pass restricted by country whose
\* filter kept nothing or whose probes all failed.
C16_ClearStep ==
  CountrySet(country_id') # CountrySet(country_id) =>
    /\ CountryActive(country_id)
    /\ country_id' = None
    /\ \/ /\ pc = "filter"
          /\ proxy_list # <<>>
          /\ \A k \in 1..Len(proxy_list) : ~MatchesNow(proxy_list[k])
       \/ /\ pc = "probe"
          /\ candidates # <<>>
          /\ Len(probed) = Len(candidates)
          /\ NoneOk(probed)

\* C16: widening relaxes only the country restriction.  Every record
\* get_proxy_list returns and every candidate get probes or returns satisfies
\* the anonymity, google and scheme sub-predicates in every pass; a record
\* outside the constructed country set appears only once the country set has
\* been cleared, and it is cleared only by a country-restricted pass whose
\* filter kept nothing or whose probes all failed.
C16_WidenOnlyCountry == []C16_ReturnedInv /\ [][C16_ClearStep]_vars

\* A get under country_id = ['ZZ'] and anonym that returned, after widening,
\* an anonymous proxy from outside ZZ.
C16_Witness ==
  /\ op = "get" /\ pc = "done" /\ result # None
  /\ country0 = Some({"ZZ"})
  /\ anonym /\ ~elite
  /\ candidates[Len(probed)].anonymity = "anonymous"
  /\ candidates[Len(probed)].country = "US"

\* C17: get returns an address only if a probe of this call through the
\* candidate with that address came back 2xx, the candidate being one of the
\* list that was being probed; with no successful probe get returns nothing.
C17_ReturnedWasProbed ==
  /\ (op = "get" /\ result # None) =>
       \E k \in 1..Len(probed) :
         /\ probed[k].ok
         /\ probed[k].index \in 1..Len(candidates)
         /\ result = Some(proxy_address(candidates[probed[k].index]))
  /\ (op = "get" /\ NoneOk(probed)) => result = None

\* get returned the third candidate after the first two failed.
C17_Witness ==
  /\ op = "get" /\ pc = "done"
  /\ Len(candidates) = 3
  /\ Len(probed) = 3
  /\ probed[3].ok
  /\ result = Some(proxy_address(candidates[3]))

\* C18 as stated, its outcome and its bounds: a call that has ended has
\* returned or has raised one of NoProxiesAvailable, NoMatchingProxies and
\* NoWorkingProxies; a get runs at most two probing passes and three
\* aggregator invocations, a get_proxy_list at most two aggregator
\* invocations.
C18_EndsTypedAndBounded ==
  /\ pc = "done" =>
       \/ error = "none" /\ result # None
       \/ error \in {NoProxiesAvailable, NoMatchingProxies, NoWorkingProxies}
  /\ op = "get" => (probe_passes <= 2 /\ passes <= 3)
  /\ op = "list" => passes <= 2

\* C19 as stated: a get_proxy_list call that has ended has returned at least
\* one record or has raised NoProxiesAvailable or NoMatchingProxies, and the
\* emptiness check at the start of get is never taken.
C19_NeverEmpty ==
  /\ (op = "list" /\ pc = "done") =>
       \/ error = "none" /\ result # None /\ result[1] # <<>>
       \/ error \in {NoProxiesAvailable, NoMatchingProxies}
  /\ error # NoCandidates

====
